---------------------------- MODULE Spec2Model ----------------------------
(***************************************************************************)
(* A model of parse_transaction.py: the field extractors that turn the     *)
(* text of a Vision API annotation into a transaction record, the          *)
(* validator, and the write of the result file in main.                    *)
(*                                                                         *)
(* A Python str is modelled as a sequence of one-character strings, so     *)
(* that every regular expression, str.replace, str.lower and float() is    *)
(* computed on characters as the interpreter computes it.  A float is      *)
(* modelled by the decimal numeral it was parsed from, normalised: two     *)
(* numerals of at most 15 significant digits denote the same double iff    *)
(* their normal forms are equal.                                           *)
(***************************************************************************)
EXTENDS Integers, Sequences, FiniteSets, TLC

VARIABLES
    pc,                 \* position of the run: "start", then "done"
    text,               \* the text handed to the extractor under examination
    banks,              \* the list of bank names handed to extract_amounts
    ret,                \* the value the extractor returned
    transaction,        \* the record parse_transaction built
    validation,         \* the record validate_transaction built
    annotation_file,    \* sys.argv[1]
    fs,                 \* the files: path |-> decoded JSON content
    outputs             \* what each run of main wrote: file name and JSON

vars == <<pc, text, banks, ret, transaction, validation, annotation_file, fs,
          outputs>>

extractor_vars == <<transaction, validation, annotation_file, fs, outputs>>

---------------------------------------------------------------------------
(* Characters and the str methods the program uses.                        *)

Digits == {"0", "1", "2", "3", "4", "5", "6", "7", "8", "9"}

UpperChars ==
    <<"A", "B", "C", "D", "E", "F", "G", "H", "I", "J", "K", "L", "M", "N",
      "O", "P", "Q", "R", "S", "T", "U", "V", "W", "X", "Y", "Z",
      "Á", "É", "Í", "Ó", "Ú", "Ñ">>

LowerChars ==
    <<"a", "b", "c", "d", "e", "f", "g", "h", "i", "j", "k", "l", "m", "n",
      "o", "p", "q", "r", "s", "t", "u", "v", "w", "x", "y", "z",
      "á", "é", "í", "ó", "ú", "ñ">>

IsDigit(c) == c \in Digits

\* \s of the re module, restricted to the white space the inputs hold.
IsSpace(c) == c \in {" ", "\n"}

UpperSet == {UpperChars[i] : i \in 1..Len(UpperChars)}

LowerSet == {LowerChars[i] : i \in 1..Len(LowerChars)}

LowerOf ==
    [c \in UpperSet |->
        LowerChars[CHOOSE i \in 1..Len(UpperChars) : UpperChars[i] = c]]

UpperOf ==
    [c \in LowerSet |->
        UpperChars[CHOOSE i \in 1..Len(LowerChars) : LowerChars[i] = c]]

char_lower(c) == IF c \in UpperSet THEN LowerOf[c] ELSE c

char_upper(c) == IF c \in LowerSet THEN UpperOf[c] ELSE c

\* str.lower()
str_lower(s) == [i \in 1..Len(s) |-> char_lower(s[i])]

\* str.upper()
str_upper(s) == [i \in 1..Len(s) |-> char_upper(s[i])]

\* s[p:p+len(w)] == w
StartsWithAt(s, p, w) ==
    /\ p >= 1
    /\ p + Len(w) - 1 <= Len(s)
    /\ SubSeq(s, p, p + Len(w) - 1) = w

\* the same, under re.IGNORECASE
StartsWithAtNoCase(s, p, w) ==
    /\ p >= 1
    /\ p + Len(w) - 1 <= Len(s)
    /\ \A i \in 1..Len(w) : char_lower(s[p + i - 1]) = char_lower(w[i])

\* w in s
Contains(s, w) == \E p \in 1..(Len(s) + 1) : StartsWithAt(s, p, w)

RECURSIVE ReplaceFrom(_, _, _, _)
ReplaceFrom(s, p, old, new) ==
    IF p > Len(s) THEN <<>>
    ELSE IF StartsWithAt(s, p, old)
         THEN new \o ReplaceFrom(s, p + Len(old), old, new)
         ELSE <<s[p]>> \o ReplaceFrom(s, p + 1, old, new)

\* str.replace(old, new) for a non-empty old: the occurrences of old, found
\* left to right without overlap, are each replaced by new.
str_replace(s, old, new) == ReplaceFrom(s, 1, old, new)

\* str.count(c) of a single character
str_count(s, c) == Cardinality({i \in 1..Len(s) : s[i] = c})

\* s.split(c)[-1]: what follows the last occurrence of c
LastSegment(s, c) ==
    LET at == {i \in 1..Len(s) : s[i] = c}
        last == IF at = {} THEN 0 ELSE CHOOSE i \in at : \A j \in at : j <= i
    IN  SubSeq(s, last + 1, Len(s))

RECURSIVE Flatten(_)
Flatten(ss) == IF ss = <<>> THEN <<>> ELSE Head(ss) \o Flatten(Tail(ss))

---------------------------------------------------------------------------
(* float(): the value of a numeral.                                        *)

RECURSIVE StripLeadingZeros(_)
StripLeadingZeros(ds) ==
    IF Len(ds) > 1 /\ Head(ds) = "0" THEN StripLeadingZeros(Tail(ds)) ELSE ds

RECURSIVE StripTrailingZeros(_)
StripTrailingZeros(ds) ==
    IF Len(ds) > 0 /\ ds[Len(ds)] = "0"
    THEN StripTrailingZeros(SubSeq(ds, 1, Len(ds) - 1))
    ELSE ds

ValueError == [ok |-> FALSE, int |-> <<>>, frac |-> <<>>]

\* float(s) for s made of digits, periods and commas: the number s denotes,
\* or ValueError when s is no numeral (a comma, two periods, no digit).
float(s) ==
    LET dots == {i \in 1..Len(s) : s[i] = "."}
        dot  == IF dots = {} THEN Len(s) + 1 ELSE CHOOSE i \in dots : TRUE
        ip   == SubSeq(s, 1, dot - 1)
        fp   == SubSeq(s, dot + 1, Len(s))
    IN  IF \/ \E i \in 1..Len(s) : ~IsDigit(s[i]) /\ s[i] # "."
           \/ Cardinality(dots) > 1
           \/ Len(ip) + Len(fp) = 0
        THEN ValueError
        ELSE [ok   |-> TRUE,
              int  |-> StripLeadingZeros(IF ip = <<>> THEN <<"0">> ELSE ip),
              frac |-> StripTrailingZeros(fp)]

Number(ip, fp) == [ok |-> TRUE, int |-> ip, frac |-> fp]

---------------------------------------------------------------------------
(* format(amount, ",.Nf"): fixed point with N decimals, rounded half to    *)
(* even, the integer part grouped in threes by commas.                     *)

RECURSIVE Increment(_)
Increment(ds) ==
    IF ds = <<>> THEN <<"1">>
    ELSE LET last == ds[Len(ds)]
             init == SubSeq(ds, 1, Len(ds) - 1)
         IN  IF last = "9" THEN Increment(init) \o <<"0">>
             ELSE init \o <<CHOOSE d \in Digits :
                               \E k \in 0..8 :
                                  /\ <<"0","1","2","3","4","5","6","7","8">>[k + 1] = last
                                  /\ <<"1","2","3","4","5","6","7","8","9">>[k + 1] = d>>

RECURSIVE GroupThousands(_)
GroupThousands(ds) ==
    IF Len(ds) <= 3 THEN ds
    ELSE GroupThousands(SubSeq(ds, 1, Len(ds) - 3))
            \o <<",">> \o SubSeq(ds, Len(ds) - 2, Len(ds))

PadRight(ds, n) ==
    IF Len(ds) >= n THEN ds ELSE ds \o [i \in 1..(n - Len(ds)) |-> "0"]

\* The digits dropped are exactly one half of the last place kept.
IsTie(rest) ==
    rest # <<>> /\ rest[1] = "5" /\ \A i \in 2..Len(rest) : rest[i] = "0"

\* The digits dropped are more than one half of the last place kept.
IsAbove(rest) ==
    rest # <<>> /\ \/ rest[1] \in {"6", "7", "8", "9"}
                   \/ rest[1] = "5" /\ ~IsTie(rest)

IsOdd(ds) == ds[Len(ds)] \in {"1", "3", "5", "7", "9"}

\* The digits kept, after rounding half to even on the digits dropped.
Rounded(kept, rest) ==
    IF IsAbove(rest) \/ (IsTie(rest) /\ IsOdd(kept)) THEN Increment(kept) ELSE kept

\* The digits written with the last n of them after the point.
PointAt(digs, n) ==
    GroupThousands(SubSeq(digs, 1, Len(digs) - n))
        \o (IF n = 0 THEN <<>>
                     ELSE <<".">> \o SubSeq(digs, Len(digs) - n + 1, Len(digs)))

format_fixed(v, n) ==
    PointAt(Rounded(v.int \o SubSeq(PadRight(v.frac, n), 1, n),
                    SubSeq(v.frac, n + 1, Len(v.frac))),
            n)

---------------------------------------------------------------------------
(* The numeral patterns of extract_amounts.  Each operator gives the       *)
(* position just after the longest match of its sub-pattern at p; the      *)
(* quantifiers are greedy and nothing after them can fail, so the first    *)
(* match the re engine finds is the longest one.                           *)

RECURSIVE SkipSpaces(_, _)
\* \s*
SkipSpaces(s, p) ==
    IF p <= Len(s) /\ IsSpace(s[p]) THEN SkipSpaces(s, p + 1) ELSE p

\* \d{n}: are the n characters at p digits
DigitsAt(s, p, n) ==
    /\ p + n - 1 <= Len(s)
    /\ \A i \in p..(p + n - 1) : IsDigit(s[i])

\* \d{1,3}: the position after it, p when no digit is at p
LeadDigits(s, p) ==
    IF DigitsAt(s, p, 3) THEN p + 3
    ELSE IF DigitsAt(s, p, 2) THEN p + 2
    ELSE IF DigitsAt(s, p, 1) THEN p + 1
    ELSE p

RECURSIVE Groups(_, _, _)
\* (?:[seps]\d{3})*
Groups(s, p, seps) ==
    IF p <= Len(s) /\ s[p] \in seps /\ DigitsAt(s, p + 1, 3)
    THEN Groups(s, p + 4, seps)
    ELSE p

\* (?:[seps]\d{2})?
Decimals(s, p, seps) ==
    IF p <= Len(s) /\ s[p] \in seps /\ DigitsAt(s, p + 1, 2) THEN p + 3 ELSE p

NoMatch == [ok |-> FALSE, from |-> 0, to |-> 0, end |-> 0]

\* marker \s* ( \d{1,3} (?:[groupSeps]\d{3})* (?:[decSeps]\d{2})? ) at p:
\* the captured group is s[from..to] and the match ends before end.
MarkedNumeral(s, p, marker, groupSeps, decSeps) ==
    IF ~StartsWithAtNoCase(s, p, marker) THEN NoMatch
    ELSE LET b == SkipSpaces(s, p + Len(marker))
             l == LeadDigits(s, b)
             e == Decimals(s, Groups(s, l, groupSeps), decSeps)
         IN  IF l = b THEN NoMatch
             ELSE [ok |-> TRUE, from |-> b, to |-> e - 1, end |-> e]

\* r'COP\s*(\d{1,3}(?:\.\d{3})*(?:,\d{2})?)', re.IGNORECASE
cop_pattern(s, p) == MarkedNumeral(s, p, <<"C", "O", "P">>, {"."}, {","})

\* r'USD\s*(\d{1,3}(?:,\d{3})*(?:\.\d{2})?)', re.IGNORECASE
usd_pattern(s, p) == MarkedNumeral(s, p, <<"U", "S", "D">>, {","}, {"."})

\* r'\$\s*(\d{1,3}(?:[\.,]\d{3})*(?:[\.,]\d{2})?)'
dollar_sign_pattern(s, p) == MarkedNumeral(s, p, <<"$">>, {".", ","}, {".", ","})

\* r'(\d{1,3}(?:\.\d{3})+(?:,\d{2})?)': at least one group, so the lead
\* digits must be followed by a period; giving back a lead digit leaves a
\* digit in that place, so only the longest lead can match.
general_cop(s, p) ==
    LET l == LeadDigits(s, p)
        g == Groups(s, l, {"."})
        e == Decimals(s, g, {","})
    IN  IF l = p \/ g = l THEN NoMatch
        ELSE [ok |-> TRUE, from |-> p, to |-> e - 1, end |-> e]


RECURSIVE Stars(_, _)
\* \**: the position after the asterisks at p
Stars(s, p) == IF p <= Len(s) /\ s[p] = "*" THEN Stars(s, p + 1) ELSE p

\* r'\*{4,}(\d{4})': four asterisks or more, then four digits, which are
\* captured.  The asterisks are taken greedily and a digit must follow them,
\* so giving one back cannot help.
masked_account_pattern(s, p) ==
    LET d == Stars(s, p)
    IN  IF d - p >= 4 /\ DigitsAt(s, d, 4)
        THEN [ok |-> TRUE, from |-> d, to |-> d + 3, end |-> d + 4]
        ELSE NoMatch

\* The position after the first of the words that is at p (under
\* re.IGNORECASE), p when none is: an alternation of words none of which is
\* the beginning of another.
WordEnd(s, p, words) ==
    IF \E w \in words : StartsWithAtNoCase(s, p, w)
    THEN p + Len(CHOOSE w \in words : StartsWithAtNoCase(s, p, w))
    ELSE p

\* r'(?:ACCOUNT|ACCT)\s*(?:NO|NUMBER|#)?:?\s*\**(\d{4})', re.IGNORECASE.
\* Every optional part is taken when it is there: what it would leave behind
\* (a letter, a #, a colon, a space, an asterisk) is nothing a later part or
\* the digits could match.
labeled_account_pattern(s, p) ==
    LET l == WordEnd(s, p, { <<"A", "C", "C", "O", "U", "N", "T">>,
                             <<"A", "C", "C", "T">> })
        n == WordEnd(s, SkipSpaces(s, l), { <<"N", "O">>,
                                            <<"N", "U", "M", "B", "E", "R">>,
                                            <<"#">> })
        c == IF StartsWithAt(s, n, <<":">>) THEN n + 1 ELSE n
        d == Stars(s, SkipSpaces(s, c))
    IN  IF l > p /\ DigitsAt(s, d, 4)
        THEN [ok |-> TRUE, from |-> d, to |-> d + 3, end |-> d + 4]
        ELSE NoMatch

RECURSIVE RunEnd(_, _, _)
\* The position after the longest run at p of characters of the set cs.
RunEnd(s, p, cs) ==
    IF p <= Len(s) /\ s[p] \in cs THEN RunEnd(s, p + 1, cs) ELSE p

\* [A-Z] under re.IGNORECASE, and without it
AsciiUpper == {UpperChars[i] : i \in 1..26}

AsciiLetters == AsciiUpper \cup {LowerChars[i] : i \in 1..26}

\* A match of a pattern without a group: findall gives the whole match.
Whole(p, e) == [ok |-> TRUE, from |-> p, to |-> e - 1, end |-> e]

\* \d{1,2} before the character c: the position after the digits, p when
\* they do not match.  Two digits are tried first; c decides.
ShortNumberEnd(s, p, cs) ==
    IF DigitsAt(s, p, 2) /\ p + 2 <= Len(s) /\ s[p + 2] \in cs THEN p + 2
    ELSE IF DigitsAt(s, p, 1) /\ p + 1 <= Len(s) /\ s[p + 1] \in cs THEN p + 1
    ELSE p

\* r'\d{1,2}/\d{1,2}/\d{2,4}'
slash_date_pattern(s, p) ==
    LET a == ShortNumberEnd(s, p, {"/"})
        b == ShortNumberEnd(s, a + 1, {"/"})
        y == IF DigitsAt(s, b + 1, 4) THEN 4
             ELSE IF DigitsAt(s, b + 1, 3) THEN 3
             ELSE IF DigitsAt(s, b + 1, 2) THEN 2 ELSE 0
    IN  IF a > p /\ b > a + 1 /\ y > 0 THEN Whole(p, b + 1 + y) ELSE NoMatch

\* r'\d{4}-\d{2}-\d{2}'
iso_date_pattern(s, p) ==
    IF /\ DigitsAt(s, p, 4) /\ StartsWithAt(s, p + 4, <<"-">>)
       /\ DigitsAt(s, p + 5, 2) /\ StartsWithAt(s, p + 7, <<"-">>)
       /\ DigitsAt(s, p + 8, 2)
    THEN Whole(p, p + 10)
    ELSE NoMatch

Months ==
    { <<"J", "a", "n">>, <<"F", "e", "b">>, <<"M", "a", "r">>, <<"A", "p", "r">>,
      <<"M", "a", "y">>, <<"J", "u", "n">>, <<"J", "u", "l">>, <<"A", "u", "g">>,
      <<"S", "e", "p">>, <<"O", "c", "t">>, <<"N", "o", "v">>, <<"D", "e", "c">> }

\* r'(?:Jan|...|Dec)[a-z]* \d{1,2},? \d{4}', re.IGNORECASE
month_date_pattern(s, p) ==
    LET m == WordEnd(s, p, Months)
        l == RunEnd(s, m, AsciiLetters)
        d == ShortNumberEnd(s, l + 1, {",", " "})
        c == IF StartsWithAt(s, d, <<",">>) THEN d + 1 ELSE d
    IN  IF /\ m > p /\ StartsWithAt(s, l, <<" ">>) /\ d > l + 1
           /\ StartsWithAt(s, c, <<" ">>) /\ DigitsAt(s, c + 1, 4)
        THEN Whole(p, c + 5)
        ELSE NoMatch

\* :?\s*([A-Z0-9-]+) at p, under re.IGNORECASE
ReferenceToken(s, p) ==
    LET c == IF StartsWithAt(s, p, <<":">>) THEN p + 1 ELSE p
        d == SkipSpaces(s, c)
        e == RunEnd(s, d, AsciiLetters \cup Digits \cup {"-"})
    IN  IF e > d THEN [ok |-> TRUE, from |-> d, to |-> e - 1, end |-> e]
        ELSE NoMatch

\* \s*(?:NO|NUMBER|#)?:?\s*([A-Z0-9-]+) at p.  The optional word is tried
\* first; when the token cannot follow it, the word is left to the token,
\* whose characters include letters.
ReferenceTail(s, p) ==
    LET b == SkipSpaces(s, p)
        n == WordEnd(s, b, { <<"N", "O">>, <<"N", "U", "M", "B", "E", "R">>,
                             <<"#">> })
    IN  IF n > b /\ ReferenceToken(s, n).ok
        THEN ReferenceToken(s, n)
        ELSE ReferenceToken(s, b)

ReferenceLabels ==
    << <<"R", "E", "F">>, <<"R", "E", "F", "E", "R", "E", "N", "C", "E">>,
       <<"C", "O", "N", "F", "I", "R", "M", "A", "T", "I", "O", "N">>,
       <<"T", "R", "A", "N", "S", "A", "C", "T", "I", "O", "N">> >>

\* The label k is at p and the rest of the pattern matches after it.
LabelFits(s, p, k) ==
    /\ StartsWithAtNoCase(s, p, ReferenceLabels[k])
    /\ ReferenceTail(s, p + Len(ReferenceLabels[k])).ok

FirstLabel(s, p) ==
    CHOOSE k \in 1..Len(ReferenceLabels) :
        LabelFits(s, p, k) /\ \A j \in 1..(k - 1) : ~LabelFits(s, p, j)

\* r'(?:REF|REFERENCE|CONFIRMATION|TRANSACTION)\s*(?:NO|NUMBER|#)?:?\s*([A-Z0-9-]+)',
\* re.IGNORECASE: the first label, in the order written, after which the
\* rest matches.
labeled_reference_pattern(s, p) ==
    IF \E k \in 1..Len(ReferenceLabels) : LabelFits(s, p, k)
    THEN ReferenceTail(s, p + Len(ReferenceLabels[FirstLabel(s, p)]))
    ELSE NoMatch

\* r'\b[A-Z]{2,}\d{6,}\b', re.IGNORECASE: the letters and the digits are
\* taken greedily; a shorter run of either is followed by a character of its
\* own kind, which fits neither what comes next nor \b.
bare_reference_pattern(s, p) ==
    LET l == RunEnd(s, p, AsciiLetters)
        d == RunEnd(s, l, Digits)
    IN  IF /\ p >= 1 /\ (p - 1 < 1 \/ ~(s[p - 1] \in UpperSet \cup LowerSet \cup Digits \cup {"_"}))
           /\ l - p >= 2 /\ d - l >= 6
           /\ (d > Len(s) \/ ~(s[d] \in UpperSet \cup LowerSet \cup Digits \cup {"_"}))
        THEN Whole(p, d)
        ELSE NoMatch

Match(s, kind, p) ==
    CASE kind = "cop"     -> cop_pattern(s, p)
      [] kind = "usd"     -> usd_pattern(s, p)
      [] kind = "dollar"  -> dollar_sign_pattern(s, p)
      [] kind = "general" -> general_cop(s, p)
      [] kind = "masked"  -> masked_account_pattern(s, p)
      [] kind = "labeled" -> labeled_account_pattern(s, p)
      [] kind = "slash_date" -> slash_date_pattern(s, p)
      [] kind = "iso_date" -> iso_date_pattern(s, p)
      [] kind = "month_date" -> month_date_pattern(s, p)
      [] kind = "labeled_reference" -> labeled_reference_pattern(s, p)
      [] kind = "bare_reference" -> bare_reference_pattern(s, p)

RECURSIVE FindAllFrom(_, _, _)
\* The scan after the attempt m at p: past the match, or one character on.
ScanOn(s, kind, p, m) ==
    IF m.ok THEN <<m>> \o FindAllFrom(s, kind, m.end)
            ELSE FindAllFrom(s, kind, p + 1)

FindAllFrom(s, kind, p) ==
    IF p > Len(s) THEN <<>> ELSE ScanOn(s, kind, p, Match(s, kind, p))

\* The matches of a pattern in the text, found left to right without overlap.
finditer(kind, s) == FindAllFrom(s, kind, 1)

\* The captured group of each match.
Captures(s, ms) == [i \in 1..Len(ms) |-> SubSeq(s, ms[i].from, ms[i].to)]

\* re.findall(pattern, text): the captured group of every match
findall(kind, s) == Captures(s, finditer(kind, s))

---------------------------------------------------------------------------
(* extract_amounts                                                         *)

COLOMBIAN_BANKS ==
    { <<"b", "a", "n", "c", "o", "l", "o", "m", "b", "i", "a">>,
      <<"d", "a", "v", "i", "v", "i", "e", "n", "d", "a">>,
      <<"b", "b", "v", "a", " ", "c", "o", "l", "o", "m", "b", "i", "a">>,
      <<"b", "a", "n", "c", "o", " ", "d", "e", " ", "b", "o", "g", "o", "t", "á">>,
      <<"b", "a", "n", "c", "o", " ", "d", "e", " ", "o", "c", "c", "i", "d", "e", "n", "t", "e">>,
      <<"b", "a", "n", "c", "o", " ", "p", "o", "p", "u", "l", "a", "r">>,
      <<"b", "a", "n", "c", "o", " ", "a", "v", " ", "v", "i", "l", "l", "a", "s">>,
      <<"b", "a", "n", "c", "o", " ", "c", "a", "j", "a", " ", "s", "o", "c", "i", "a", "l">>,
      <<"b", "a", "n", "c", "o", "o", "m", "e", "v", "a">>,
      <<"c", "o", "l", "p", "a", "t", "r", "i", "a">>,
      <<"i", "t", "a", "ú">> }

\* is_colombian_bank without .lower(): the names compared as they are.
is_colombian_bank_as_written(bs) ==
    \E i \in 1..Len(bs) : bs[i] \in COLOMBIAN_BANKS

\* any(bank.lower() in COLOMBIAN_BANKS for bank in banks), False for no banks
is_colombian_bank(bs) ==
    \E i \in 1..Len(bs) : str_lower(bs[i]) \in COLOMBIAN_BANKS

Candidate(amount, currency, formatted) ==
    [amount |-> amount, currency |-> currency, formatted |-> formatted]

\* Priority 1: match.replace('.', '').replace(',', '.')
cop_amount_str(match) ==
    str_replace(str_replace(match, <<".">>, <<>>), <<",">>, <<".">>)

\* f"COP {amount:,.2f}".replace(',', 'X').replace('.', ',').replace('X', '.')
cop_candidate(amount) ==
    Candidate(amount, "COP",
        str_replace(
            str_replace(
                str_replace(<<"C", "O", "P", " ">> \o format_fixed(amount, 2),
                            <<",">>, <<"X">>),
                <<".">>, <<",">>),
            <<"X">>, <<".">>))

\* Priority 2: match.replace(',', '')
usd_amount_str(match) == str_replace(match, <<",">>, <<>>)

\* f"USD {amount:,.2f}"
usd_candidate(amount) ==
    Candidate(amount, "USD", <<"U", "S", "D", " ">> \o format_fixed(amount, 2))

\* colombian_amount_str without the look at the final segment: every period
\* is taken for a thousands separator.
colombian_amount_str_no_segment_test(match) ==
    IF Contains(match, <<".">>) /\ Contains(match, <<",">>)
    THEN str_replace(str_replace(match, <<".">>, <<>>), <<",">>, <<".">>)
    ELSE IF Contains(match, <<".">>)
    THEN str_replace(match, <<".">>, <<>>)
    ELSE str_replace(match, <<",">>, <<".">>)

\* Priority 3, a Colombian bank detected: the numeral read in Colombian format
colombian_amount_str(match) ==
    IF Contains(match, <<".">>) /\ Contains(match, <<",">>)
    THEN str_replace(str_replace(match, <<".">>, <<>>), <<",">>, <<".">>)
    ELSE IF Contains(match, <<".">>)
    THEN IF str_count(match, ".") >= 1 /\ Len(LastSegment(match, ".")) = 3
         THEN str_replace(match, <<".">>, <<>>)
         ELSE match
    ELSE str_replace(match, <<",">>, <<".">>)

\* f"$ {amount:,.0f}".replace(',', '.')
colombian_candidate(amount) ==
    Candidate(amount, "COP",
        str_replace(<<"$", " ">> \o format_fixed(amount, 0), <<",">>, <<".">>))

\* Priority 3, no Colombian bank: match.replace(',', '')
us_amount_str(match) == str_replace(match, <<",">>, <<>>)

\* f"${amount:,.2f}"
us_candidate(amount) ==
    Candidate(amount, "USD", <<"$">> \o format_fixed(amount, 2))

\* Priority 4: match.replace('.', '').replace(',', '.')
general_amount_str(match) ==
    str_replace(str_replace(match, <<".">>, <<>>), <<",">>, <<".">>)

\* Priority 4: 'formatted' is the match itself
general_candidate(match, amount, colombian) ==
    Candidate(amount, IF colombian THEN "COP" ELSE "UNKNOWN", match)

\* The body of one rule's loop: the numeral string of a match and, when
\* float() accepts it, the candidate appended.
amount_str(rule, match, colombian) ==
    CASE rule = "cop"     -> cop_amount_str(match)
      [] rule = "usd"     -> usd_amount_str(match)
      [] rule = "dollar"  -> IF colombian THEN colombian_amount_str(match)
                                          ELSE us_amount_str(match)
      [] rule = "general" -> general_amount_str(match)

candidate(rule, match, amount, colombian) ==
    CASE rule = "cop"     -> cop_candidate(amount)
      [] rule = "usd"     -> usd_candidate(amount)
      [] rule = "dollar"  -> IF colombian THEN colombian_candidate(amount)
                                          ELSE us_candidate(amount)
      [] rule = "general" -> general_candidate(match, amount, colombian)

\* One rule's loop over its matches: one candidate per match whose numeral
\* float() accepts, in the order of the matches; a match that raises
\* ValueError is skipped (except ValueError: continue).
\* try: float(amount_str), append; except ValueError: continue
appended(rule, match, amount, colombian) ==
    IF amount.ok THEN <<candidate(rule, match, amount, colombian)>> ELSE <<>>

RECURSIVE Candidates(_, _, _)
Candidates(rule, matches, colombian) ==
    IF matches = <<>> THEN <<>>
    ELSE appended(rule, Head(matches),
                  float(amount_str(rule, Head(matches), colombian)), colombian)
            \o Candidates(rule, Tail(matches), colombian)

rule_candidates(rule, s, colombian) ==
    Candidates(rule, findall(rule, s), colombian)

\* marked_candidates with the rules chained by elif: the first rule that
\* matches suppresses the later ones.
marked_candidates_first_rule_only(s, colombian) ==
    IF rule_candidates("cop", s, colombian) # <<>>
    THEN rule_candidates("cop", s, colombian)
    ELSE IF rule_candidates("usd", s, colombian) # <<>>
    THEN rule_candidates("usd", s, colombian)
    ELSE rule_candidates("dollar", s, colombian)

\* The candidates of priorities 1 to 3, accumulated in this order.
marked_candidates(s, colombian) ==
    rule_candidates("cop", s, colombian)
        \o rule_candidates("usd", s, colombian)
        \o rule_candidates("dollar", s, colombian)

\* extract_amounts without the test "if not amounts" before priority 4.
extract_amounts_ungated(s, bs) ==
    marked_candidates(s, is_colombian_bank(bs))
        \o rule_candidates("general", s, is_colombian_bank(bs))

\* if not amounts: priority 4
with_fallback(amounts, s, colombian) ==
    IF amounts = <<>> THEN rule_candidates("general", s, colombian) ELSE amounts

extract_amounts(s, bs) ==
    with_fallback(marked_candidates(s, is_colombian_bank(bs)), s,
                  is_colombian_bank(bs))

---------------------------------------------------------------------------
(* extract_time                                                            *)

None == <<>>

Some(x) == <<x>>

\* str(x) of an optional string, as an f-string writes it
str(x) == IF x = None THEN <<"N", "o", "n", "e">> ELSE x[1]

RECURSIVE lstrip(_)
lstrip(s) == IF s # <<>> /\ IsSpace(Head(s)) THEN lstrip(Tail(s)) ELSE s

RECURSIVE rstrip(_)
rstrip(s) ==
    IF s # <<>> /\ IsSpace(s[Len(s)]) THEN rstrip(SubSeq(s, 1, Len(s) - 1)) ELSE s

\* str.strip()
strip(s) == lstrip(rstrip(s))

\* \w: letters, digits and the underscore
IsWord(c) == c \in UpperSet \cup LowerSet \cup Digits \cup {"_"}

\* \b at p: exactly one of s[p-1], s[p] is a word character
WordBoundary(s, p) ==
    (p - 1 >= 1 /\ p - 1 <= Len(s) /\ IsWord(s[p - 1]))
        # (p >= 1 /\ p <= Len(s) /\ IsWord(s[p]))

\* ([0-2]?\d): the position after it, p when it does not match before a colon.
\* The two-character reading is tried first; the colon that must follow
\* decides between the two.
HourEnd(s, p) ==
    IF /\ p + 2 <= Len(s) /\ s[p] \in {"0", "1", "2"}
       /\ IsDigit(s[p + 1]) /\ s[p + 2] = ":"
    THEN p + 2
    ELSE IF p + 1 <= Len(s) /\ IsDigit(s[p]) /\ s[p + 1] = ":"
    THEN p + 1
    ELSE p

\* ([0-2]?\d):([0-5]\d) at p: <<hour, minute, position after>>, <<>> if none
HourMinute(s, p) ==
    LET h == HourEnd(s, p)
    IN  IF /\ h > p /\ h + 2 <= Len(s)
           /\ s[h + 1] \in {"0", "1", "2", "3", "4", "5"} /\ IsDigit(s[h + 2])
        THEN <<SubSeq(s, p, h - 1), SubSeq(s, h + 1, h + 2), h + 3>>
        ELSE <<>>

Meridiems == { <<"A", "M">>, <<"P", "M">>, <<"a", "m">>, <<"p", "m">> }

\* \s*(AM|PM|am|pm)?\b from q, with n white-space characters at most: the
\* re engine tries the longest white space first, with the meridiem and
\* then without it, and gives one space back at a time.
RECURSIVE MeridiemTail(_, _, _)
MeridiemTail(s, q, n) ==
    LET at == q + n
        m  == IF at + 1 <= Len(s) THEN SubSeq(s, at, at + 1) ELSE <<>>
    IN  IF m \in Meridiems /\ WordBoundary(s, at + 2)
        THEN [ok |-> TRUE, meridiem |-> Some(m)]
        ELSE IF WordBoundary(s, at)
        THEN [ok |-> TRUE, meridiem |-> None]
        ELSE IF n = 0 THEN [ok |-> FALSE, meridiem |-> None]
        ELSE MeridiemTail(s, q, n - 1)

NoTime == [ok |-> FALSE, hour |-> <<>>, minute |-> <<>>, groups |-> 0,
           meridiem |-> None]

\* r'\b([0-2]?\d):([0-5]\d)\s*(AM|PM|am|pm)?\b' at p
time_pattern(s, p) ==
    LET hm == HourMinute(s, p)
        t  == MeridiemTail(s, hm[3], SkipSpaces(s, hm[3]) - hm[3])
    IN  IF WordBoundary(s, p) /\ hm # <<>> /\ t.ok
        THEN [ok |-> TRUE, hour |-> hm[1], minute |-> hm[2], groups |-> 3,
              meridiem |-> t.meridiem]
        ELSE NoTime

\* r'a\s+las\s+([0-2]?\d):([0-5]\d)' at p
a_las_pattern(s, p) ==
    LET b1 == SkipSpaces(s, p + 1)
        b2 == SkipSpaces(s, b1 + 3)
        hm == HourMinute(s, b2)
    IN  IF /\ StartsWithAt(s, p, <<"a">>) /\ b1 > p + 1
           /\ StartsWithAt(s, b1, <<"l", "a", "s">>) /\ b2 > b1 + 3
           /\ hm # <<>>
        THEN [ok |-> TRUE, hour |-> hm[1], minute |-> hm[2], groups |-> 2,
              meridiem |-> None]
        ELSE NoTime

TimeMatch(s, k, p) == IF k = 1 THEN time_pattern(s, p) ELSE a_las_pattern(s, p)

\* re.search(patterns[k], text): the match at the leftmost position
time_search(s, k) ==
    IF \E p \in 1..Len(s) : TimeMatch(s, k, p).ok
    THEN TimeMatch(s, k, CHOOSE p \in 1..Len(s) :
                            /\ TimeMatch(s, k, p).ok
                            /\ \A q \in 1..(p - 1) : ~TimeMatch(s, k, q).ok)
    ELSE NoTime

\* The first pattern, in the order of the list, that matches the text.
first_time_match(s) ==
    IF time_search(s, 1).ok THEN time_search(s, 1) ELSE time_search(s, 2)

\* meridiem = match.group(3) if len(match.groups()) >= 3 else '': group 3 of
\* a match of the first pattern is None when the text has no AM/PM.
meridiem_of(match) ==
    IF match.groups >= 3 THEN match.meridiem ELSE Some(<<>>)

\* f"{hour}:{minute} {meridiem}".strip()
extract_time(s) ==
    LET match == first_time_match(s)
    IN  IF match.ok
        THEN Some(strip(match.hour \o <<":">> \o match.minute \o <<" ">>
                            \o str(meridiem_of(match))))
        ELSE None

---------------------------------------------------------------------------
(* extract_dates, extract_reference_numbers                                *)

\* The matches of the three patterns, one pattern after the other.
extract_dates(s) ==
    findall("slash_date", s) \o findall("iso_date", s) \o findall("month_date", s)

extract_reference_numbers(s) ==
    findall("labeled_reference", s) \o findall("bare_reference", s)

---------------------------------------------------------------------------
(* extract_merchant                                                        *)

\* (?:\s+con\s+) at p
ConTail(s, p) ==
    LET c == SkipSpaces(s, p)
    IN  /\ c > p
        /\ StartsWithAt(s, c, <<"c", "o", "n">>)
        /\ c + 3 <= Len(s) /\ IsSpace(s[c + 3])

\* (?:\s|$) at p
SpaceOrEnd(s, p) == p > Len(s) \/ IsSpace(s[p])

MerchantPatterns ==
    << [word |-> <<"e", "n">>, spaces |-> 1, tail |-> "con"],
       [word |-> <<"a", "t">>, spaces |-> 1, tail |-> "end"],
       [word |-> <<"@">>,      spaces |-> 0, tail |-> "end"] >>

\* word \s+ ([A-Z][A-Z\s]+?) tail at p (\s* for the third pattern): the
\* group starts at the capital after the white space and is the shortest
\* run of capitals and white space, two characters at least, after which
\* the tail matches.  <<>> when there is none.
merchant_pattern(s, p, k) ==
    LET pat  == MerchantPatterns[k]
        b    == SkipSpaces(s, p + Len(pat.word))
        tail(q) == IF pat.tail = "con" THEN ConTail(s, q) ELSE SpaceOrEnd(s, q)
        ends == {e \in (b + 1)..Len(s) :
                    /\ \A i \in (b + 1)..e : s[i] \in AsciiUpper \/ IsSpace(s[i])
                    /\ tail(e + 1)}
    IN  IF /\ StartsWithAt(s, p, pat.word)
           /\ b - (p + Len(pat.word)) >= pat.spaces
           /\ b <= Len(s) /\ s[b] \in AsciiUpper
           /\ ends # {}
        THEN <<SubSeq(s, b, CHOOSE e \in ends : \A f \in ends : e <= f)>>
        ELSE <<>>

\* re.search(patterns[k], text).group(1), <<>> when the pattern matches nowhere
merchant_search(s, k) ==
    IF \E p \in 1..Len(s) : merchant_pattern(s, p, k) # <<>>
    THEN merchant_pattern(s, CHOOSE p \in 1..Len(s) :
                                /\ merchant_pattern(s, p, k) # <<>>
                                /\ \A q \in 1..(p - 1) : merchant_pattern(s, q, k) = <<>>,
                          k)
    ELSE <<>>

RECURSIVE CollapseSpaces(_)
\* re.sub(r'\s+', ' ', s)
CollapseSpaces(s) ==
    IF s = <<>> THEN <<>>
    ELSE IF IsSpace(Head(s))
    THEN <<" ">> \o CollapseSpaces(lstrip(s))
    ELSE <<Head(s)>> \o CollapseSpaces(Tail(s))

extract_merchant(s) ==
    IF \E k \in 1..3 : merchant_search(s, k) # <<>>
    THEN LET k == CHOOSE k \in 1..3 :
                    /\ merchant_search(s, k) # <<>>
                    /\ \A j \in 1..(k - 1) : merchant_search(s, j) = <<>>
         IN  Some(CollapseSpaces(strip(merchant_search(s, k)[1])))
    ELSE None

---------------------------------------------------------------------------
(* detect_transaction_type                                                 *)

TransactionKeywords ==
    << [type |-> "PURCHASE",
        keywords |-> { <<"c", "o", "m", "p", "r", "a", "s", "t", "e">>,
                       <<"c", "o", "m", "p", "r", "a">>,
                       <<"p", "u", "r", "c", "h", "a", "s", "e">> }],
       [type |-> "WIRE_TRANSFER",
        keywords |-> { <<"t", "r", "a", "n", "s", "f", "e", "r", "i", "s", "t", "e">>,
                       <<"t", "r", "a", "n", "s", "f", "e", "r", "e", "n", "c", "i", "a">>,
                       <<"w", "i", "r", "e", " ", "t", "r", "a", "n", "s", "f", "e", "r">>,
                       <<"w", "i", "r", "e">> }],
       [type |-> "WITHDRAWAL",
        keywords |-> { <<"r", "e", "t", "i", "r", "a", "s", "t", "e">>,
                       <<"r", "e", "t", "i", "r", "o">>,
                       <<"w", "i", "t", "h", "d", "r", "a", "w", "a", "l">>,
                       <<"w", "i", "t", "h", "d", "r", "a", "w">>,
                       <<"a", "t", "m">> }],
       [type |-> "DEPOSIT",
        keywords |-> { <<"d", "e", "p", "o", "s", "i", "t", "a", "s", "t", "e">>,
                       <<"d", "e", "p", "ó", "s", "i", "t", "o">>,
                       <<"d", "e", "p", "o", "s", "i", "t">>,
                       <<"d", "e", "p", "o", "s", "i", "t", "e", "d">> }],
       [type |-> "PAYMENT",
        keywords |-> { <<"p", "a", "g", "a", "s", "t", "e">>,
                       <<"p", "a", "g", "o">>,
                       <<"p", "a", "y", "m", "e", "n", "t">>,
                       <<"p", "a", "i", "d">> }],
       [type |-> "ACH_TRANSFER",
        keywords |-> { <<"a", "c", "h">>,
                       <<"e", "l", "e", "c", "t", "r", "o", "n", "i", "c", " ", "t", "r", "a", "n", "s", "f", "e", "r">> }] >>

\* The first type, in the order of the elif chain, one of whose keywords is
\* in the lower-cased text.
detect_transaction_type(s) ==
    LET hit(k) == \E w \in TransactionKeywords[k].keywords :
                     Contains(str_lower(s), w)
    IN  IF \E k \in 1..Len(TransactionKeywords) : hit(k)
        THEN TransactionKeywords[CHOOSE k \in 1..Len(TransactionKeywords) :
                                    hit(k) /\ \A j \in 1..(k - 1) : ~hit(j)].type
        ELSE "UNKNOWN"

---------------------------------------------------------------------------
(* extract_account_numbers                                                 *)

\* The list of the captures of the first pattern, then of the second.
extract_account_numbers(s) == findall("masked", s) \o findall("labeled", s)

---------------------------------------------------------------------------
(* extract_card_info                                                       *)

ColombianLabels ==
    { <<"T", ".", "C", "r", "e", "d">>, <<"T", ".", "D", "e", "b">>,
      <<"T", "a", "r", "j", "e", "t", "a">> }

EnglishLabels ==
    { <<"C", "r", "e", "d", "i", "t">>, <<"D", "e", "b", "i", "t">>,
      <<"C", "a", "r", "d">> }

NoCard == [ok |-> FALSE, groups |-> 0, label |-> <<>>, last4 |-> <<>>]

\* r'(label|...)\s*\*(\d{4})' at p under re.IGNORECASE: group 1 is the label
\* as the text writes it.  For no labels, r'\*(\d{4})'.
card_pattern(s, p, labels) ==
    LET l == WordEnd(s, p, labels)
        b == SkipSpaces(s, l)
    IN  IF labels = {}
        THEN IF StartsWithAt(s, p, <<"*">>) /\ DigitsAt(s, p + 1, 4)
             THEN [ok |-> TRUE, groups |-> 1, label |-> <<>>,
                   last4 |-> SubSeq(s, p + 1, p + 4)]
             ELSE NoCard
        ELSE IF l > p /\ StartsWithAt(s, b, <<"*">>) /\ DigitsAt(s, b + 1, 4)
             THEN [ok |-> TRUE, groups |-> 2, label |-> SubSeq(s, p, l - 1),
                   last4 |-> SubSeq(s, b + 1, b + 4)]
             ELSE NoCard

\* re.search(pattern, text, re.IGNORECASE): the match at the leftmost position
card_search(s, labels) ==
    IF \E p \in 1..Len(s) : card_pattern(s, p, labels).ok
    THEN card_pattern(s, CHOOSE p \in 1..Len(s) :
                            /\ card_pattern(s, p, labels).ok
                            /\ \A q \in 1..(p - 1) : ~card_pattern(s, q, labels).ok,
                      labels)
    ELSE NoCard

\* The first pattern, in the order of the list, that matches the text.
first_card_match(s) ==
    IF card_search(s, ColombianLabels).ok THEN card_search(s, ColombianLabels)
    ELSE IF card_search(s, EnglishLabels).ok THEN card_search(s, EnglishLabels)
    ELSE card_search(s, {})

\* The translation of the label: the tests 'T.Cred' in card_type and so on
\* compare characters as they are, whatever the flags of the search were.
card_type_of(label) ==
    IF Contains(label, <<"T", ".", "C", "r", "e", "d">>)
          \/ Contains(label, <<"T", "a", "r", "j", "e", "t", "a">>)
    THEN <<"C", "r", "e", "d", "i", "t", " ", "C", "a", "r", "d">>
    ELSE IF Contains(label, <<"T", ".", "D", "e", "b">>)
    THEN <<"D", "e", "b", "i", "t", " ", "C", "a", "r", "d">>
    ELSE label

extract_card_info(s) ==
    LET match == first_card_match(s)
    IN  IF ~match.ok THEN None
        ELSE IF match.groups = 2
        THEN Some([type |-> card_type_of(match.label), last4 |-> match.last4])
        ELSE Some([type |-> <<"U", "n", "k", "n", "o", "w", "n">>,
                   last4 |-> match.last4])

---------------------------------------------------------------------------
(* The annotation file.  A JSON object is a record, a key it lacks is a    *)
(* field the record lacks, a JSON array is a sequence.                     *)

Has(object, key) == key \in DOMAIN object

\* entry.get('description', '')
description(entry) == IF Has(entry, "description") THEN entry.description ELSE <<>>

extract_text_from_annotations(annotations) ==
    IF Has(annotations, "textAnnotations") /\ annotations.textAnnotations # <<>>
    THEN description(annotations.textAnnotations[1])
    ELSE <<>>

common_banks ==
    << <<"B", "a", "n", "c", "o", "l", "o", "m", "b", "i", "a">>,
       <<"D", "a", "v", "i", "v", "i", "e", "n", "d", "a">>,
       <<"B", "B", "V", "A", " ", "C", "o", "l", "o", "m", "b", "i", "a">>,
       <<"B", "a", "n", "c", "o", " ", "d", "e", " ", "B", "o", "g", "o", "t", "á">>,
       <<"B", "a", "n", "c", "o", " ", "d", "e", " ", "O", "c", "c", "i", "d", "e", "n", "t", "e">>,
       <<"B", "a", "n", "c", "o", " ", "P", "o", "p", "u", "l", "a", "r">>,
       <<"B", "a", "n", "c", "o", " ", "A", "V", " ", "V", "i", "l", "l", "a", "s">>,
       <<"B", "a", "n", "c", "o", " ", "C", "a", "j", "a", " ", "S", "o", "c", "i", "a", "l">>,
       <<"B", "a", "n", "c", "o", "o", "m", "e", "v", "a">>,
       <<"C", "o", "l", "p", "a", "t", "r", "i", "a">>,
       <<"I", "t", "a", "ú">>,
       <<"C", "h", "a", "s", "e">>,
       <<"B", "a", "n", "k", " ", "o", "f", " ", "A", "m", "e", "r", "i", "c", "a">>,
       <<"W", "e", "l", "l", "s", " ", "F", "a", "r", "g", "o">>,
       <<"C", "i", "t", "i", "b", "a", "n", "k">>,
       <<"C", "a", "p", "i", "t", "a", "l", " ", "O", "n", "e">>,
       <<"U", "S", " ", "B", "a", "n", "k">>,
       <<"P", "N", "C">>,
       <<"T", "D", " ", "B", "a", "n", "k">>,
       <<"T", "r", "u", "i", "s", "t">>,
       <<"F", "i", "f", "t", "h", " ", "T", "h", "i", "r", "d">>,
       <<"S", "a", "n", "t", "a", "n", "d", "e", "r">> >>

\* The list banks before list(set(banks)): the description of every logo,
\* then every name of common_banks that is in the text, both lower-cased.
banks_found(annotations) ==
    LET logos == IF Has(annotations, "logoAnnotations")
                 THEN [i \in 1..Len(annotations.logoAnnotations) |->
                          description(annotations.logoAnnotations[i])]
                 ELSE <<>>
        t     == extract_text_from_annotations(annotations)
        in_text(bank) == Contains(str_lower(t), str_lower(bank))
    IN  logos \o (IF Has(annotations, "textAnnotations")
                        /\ annotations.textAnnotations # <<>>
                  THEN SelectSeq(common_banks, in_text)
                  ELSE <<>>)

\* The lists list(set(names)) can be: the distinct names, each once, in the
\* order the set iterates them.  The order follows the hashes of the strings,
\* which the interpreter salts anew in every process.
list_of_set(names) ==
    LET distinct == {names[i] : i \in 1..Len(names)}
        n == Cardinality(distinct)
    IN  {order \in [1..n -> distinct] :
            \A i, j \in 1..n : i # j => order[i] # order[j]}

\* The lists a call can return.
extract_bank_names(annotations) == list_of_set(banks_found(annotations))

---------------------------------------------------------------------------
(* parse_transaction, validate_transaction, main                           *)

TopLabels == 5

\* data['responses'][0] when there are responses, else data
annotations_of(data) ==
    IF Has(data, "responses") /\ data.responses # <<>>
    THEN data.responses[1]
    ELSE data

\* [label.get('description', '') for label in annotations['labelAnnotations'][:5]]
document_labels(annotations) ==
    IF Has(annotations, "labelAnnotations")
    THEN LET labels == annotations.labelAnnotations
             n == IF Len(labels) < TopLabels THEN Len(labels) ELSE TopLabels
         IN  [i \in 1..n |-> description(labels[i])]
    ELSE <<>>

\* The record built from the annotations and the list of banks
\* extract_bank_names returned.
transaction_record(annotations, bank_list) ==
    LET full_text == extract_text_from_annotations(annotations)
    IN  [raw_text          |-> full_text,
         amounts           |-> extract_amounts(full_text, bank_list),
         dates             |-> extract_dates(full_text),
         time              |-> extract_time(full_text),
         merchant          |-> extract_merchant(full_text),
         card_info         |-> extract_card_info(full_text),
         reference_numbers |-> extract_reference_numbers(full_text),
         account_numbers   |-> extract_account_numbers(full_text),
         transaction_type  |-> detect_transaction_type(full_text),
         banks             |-> bank_list,
         document_labels   |-> document_labels(annotations)]

\* The records a call can return for the content of the annotation file.
parse_transaction(data) ==
    {transaction_record(annotations_of(data), bank_list) :
        bank_list \in extract_bank_names(annotations_of(data))}

ManyAmounts == 5

\* validate_transaction with a warning counted as an error.
validate_transaction_strict(t) ==
    LET errors == IF t.amounts = <<>>
                  THEN <<"No monetary amounts detected">> ELSE <<>>
        warnings ==
            (IF t.dates = <<>> THEN <<"No dates detected">> ELSE <<>>)
            \o (IF t.transaction_type = "UNKNOWN"
                THEN <<"Could not determine transaction type">> ELSE <<>>)
            \o (IF t.reference_numbers = <<>>
                THEN <<"No reference numbers detected">> ELSE <<>>)
            \o (IF Len(t.amounts) > ManyAmounts
                THEN <<"Multiple amounts detected (" \o ToString(Len(t.amounts)) \o ")">>
                ELSE <<>>)
    IN  [is_valid |-> errors = <<>> /\ warnings = <<>>,
         warnings |-> warnings,
         errors   |-> errors]

validate_transaction(t) ==
    LET errors == IF t.amounts = <<>>
                  THEN <<"No monetary amounts detected">> ELSE <<>>
        warnings ==
            (IF t.dates = <<>> THEN <<"No dates detected">> ELSE <<>>)
            \o (IF t.transaction_type = "UNKNOWN"
                THEN <<"Could not determine transaction type">> ELSE <<>>)
            \o (IF t.reference_numbers = <<>>
                THEN <<"No reference numbers detected">> ELSE <<>>)
            \o (IF Len(t.amounts) > ManyAmounts
                THEN <<"Multiple amounts detected (" \o ToString(Len(t.amounts)) \o ")">>
                ELSE <<>>)
        checked == IF t.amounts = <<>> THEN FALSE ELSE TRUE
    IN  [is_valid |-> IF errors # <<>> THEN FALSE ELSE checked,
         warnings |-> warnings,
         errors   |-> errors]

\* annotation_file.replace('.json', '_parsed.json')
output_file_of(path) ==
    str_replace(path, <<".", "j", "s", "o", "n">>,
                <<"_", "p", "a", "r", "s", "e", "d", ".", "j", "s", "o", "n">>)

\* open(path, 'w') and json.dump(content): the file is created or replaced.
write_file(files, path, content) ==
    [f \in DOMAIN files \cup {path} |-> IF f = path THEN content ELSE files[f]]

MaxRuns == 2

\* json.dump({'transaction': transaction, 'validation': validation}, f)
output_json(t) == [transaction |-> t, validation |-> validate_transaction(t)]

\* One run of main on annotation_file, which exists and holds JSON.
Main ==
    /\ Len(outputs) < MaxRuns
    /\ \E t \in parse_transaction(fs[annotation_file]) :
          /\ transaction' = t
          /\ validation' = validate_transaction(t)
          /\ fs' = write_file(fs, output_file_of(annotation_file), output_json(t))
          /\ outputs' = Append(outputs, [file |-> output_file_of(annotation_file),
                                         json |-> output_json(t)])
    /\ pc' = "done"
    /\ UNCHANGED <<text, banks, ret, annotation_file>>

---------------------------------------------------------------------------
(* Inputs.  A text is a sequence of at most MaxTokens tokens, written one  *)
(* after the other with nothing in between.                                *)

MaxTokens == 4

Texts(tokens, n) ==
    {Flatten(ts) : ts \in UNION {[1..k -> tokens] : k \in 0..n}}

AmountTokens ==
    { <<"$">>, <<"C", "O", "P">>, <<"U", "S", "D">>, <<" ">>,
      <<"1">>, <<"2", "0">>,
      <<".", "0", "0", "0">>, <<",", "0", "0", "0">>,
      <<".", "5", "0">>, <<",", "5", "0">> }

Bancolombia == <<"B", "a", "n", "c", "o", "l", "o", "m", "b", "i", "a">>

Chase == <<"C", "h", "a", "s", "e">>

BankLists == { <<Chase>>, <<Chase, str_upper(Bancolombia)>> }

---------------------------------------------------------------------------
(* extract_amounts applied to a text and a list of banks.                  *)

InitAmounts ==
    /\ pc = "start"
    /\ text \in Texts(AmountTokens, MaxTokens)
    /\ banks \in BankLists
    /\ ret = <<>>
    /\ transaction = <<>>
    /\ validation = <<>>
    /\ annotation_file = <<>>
    /\ fs = <<>>
    /\ outputs = <<>>

ExtractAmounts ==
    /\ pc = "start"
    /\ ret' = extract_amounts(text, banks)
    /\ pc' = "done"
    /\ UNCHANGED <<text, banks>>
    /\ UNCHANGED extractor_vars

NextAmounts == ExtractAmounts

SpecAmounts == InitAmounts /\ [][NextAmounts]_vars

---------------------------------------------------------------------------
(* Properties of extract_amounts.                                          *)

\* The rule a candidate came from can be read off its 'formatted' field:
\* priority 1 writes "COP ...", priority 2 "USD ...", priority 3 "$...",
\* and priority 4 the bare numeral it matched.
FromRule(c) ==
    CASE c.formatted[1] = "C" -> 1
      [] c.formatted[1] = "U" -> 2
      [] c.formatted[1] = "$" -> 3
      [] IsDigit(c.formatted[1]) -> 4

OfRule(cs, k) == LET is(c) == FromRule(c) = k IN SelectSeq(cs, is)

\* C1: when the result holds a candidate of rule 1, 2 or 3, it holds no
\* candidate of rule 4, whatever the text, the banks and the candidate's value.
C1_FallbackOnlyAlone ==
    pc = "done" =>
        ((\E i \in 1..Len(ret) : FromRule(ret[i]) \in {1, 2, 3})
            => \A j \in 1..Len(ret) : FromRule(ret[j]) # 4)

\* A text with a marked amount in which the fallback pattern matches too.
C1_Witness ==
    /\ pc = "done"
    /\ \E i \in 1..Len(ret) : FromRule(ret[i]) \in {1, 2, 3}
    /\ findall("general", text) # <<>>

\* C2: the result holds every candidate of rules 1, 2 and 3, each rule's
\* candidates in the order of their matches in the text, and all of rule 1
\* before all of rule 2 before all of rule 3.
C2_AccumulatedInPriorityOrder ==
    pc = "done" =>
        LET colombian == is_colombian_bank(banks)
        IN  /\ OfRule(ret, 1) = rule_candidates("cop", text, colombian)
            /\ OfRule(ret, 2) = rule_candidates("usd", text, colombian)
            /\ OfRule(ret, 3) = rule_candidates("dollar", text, colombian)
            /\ \A i, j \in 1..Len(ret) :
                  i < j => FromRule(ret[i]) <= FromRule(ret[j])

FirstAt(s, c) ==
    IF \E i \in 1..Len(s) : s[i] = c
    THEN CHOOSE i \in 1..Len(s) : s[i] = c /\ \A j \in 1..(i - 1) : s[j] # c
    ELSE 0

\* A text whose $ amount comes before its COP amount, and a Colombian bank:
\* the result has the COP candidate first.
C2_Witness ==
    /\ pc = "done"
    /\ is_colombian_bank(banks)
    /\ Len(ret) = 2
    /\ FromRule(ret[1]) = 1
    /\ FromRule(ret[2]) = 3
    /\ FirstAt(text, "$") < FirstAt(text, "C")

\* The value the disambiguation sub-rule gives a numeral, read off its
\* digits: <<>> when the sub-rule names no single decimal point (two commas,
\* or several periods before a final segment of other than 3 digits).
DigitsOf(s) == SelectSeq(s, IsDigit)

SubRuleValue(match) ==
    LET commas  == {i \in 1..Len(match) : match[i] = ","}
        periods == {i \in 1..Len(match) : match[i] = "."}
        point   == IF commas # {} THEN CHOOSE i \in commas : TRUE
                                  ELSE CHOOSE i \in periods : TRUE
        split   == Number(StripLeadingZeros(DigitsOf(SubSeq(match, 1, point - 1))),
                          StripTrailingZeros(DigitsOf(SubSeq(match, point + 1, Len(match)))))
        whole   == Number(StripLeadingZeros(DigitsOf(match)), <<>>)
    IN  IF commas # {}
        THEN IF Cardinality(commas) = 1 THEN <<split>> ELSE <<>>
        ELSE IF periods # {}
        THEN IF Len(match) - (CHOOSE i \in periods : \A j \in periods : j <= i) = 3
             THEN <<whole>>
             ELSE IF Cardinality(periods) = 1 THEN <<split>> ELSE <<>>
        ELSE <<whole>>

RECURSIVE SubRuleValues(_)
SubRuleValues(matches) ==
    IF matches = <<>> THEN <<>>
    ELSE SubRuleValue(Head(matches)) \o SubRuleValues(Tail(matches))

AmountsOf(cs) == [i \in 1..Len(cs) |-> cs[i].amount]

\* C3, as claimed: with a Colombian bank every $ numeral yields a candidate.
C3_EveryDollarNumeralYields ==
    pc = "done" /\ is_colombian_bank(banks) =>
        Len(OfRule(ret, 3)) = Len(findall("dollar", text))

\* C3, amended: with a Colombian bank the $ candidates are all COP and their
\* values are those the sub-rule gives the $ numerals it reads as one
\* number, in order; the other $ numerals yield nothing.
C3_DollarValuesFollowSubRule ==
    pc = "done" /\ is_colombian_bank(banks) =>
        /\ AmountsOf(OfRule(ret, 3)) = SubRuleValues(findall("dollar", text))
        /\ \A i \in 1..Len(ret) : FromRule(ret[i]) = 3 => ret[i].currency = "COP"

\* A Colombian bank and a $ numeral whose only period is a decimal point.
C3_Witness ==
    /\ pc = "done"
    /\ is_colombian_bank(banks)
    /\ \E i \in 1..Len(ret) : FromRule(ret[i]) = 3 /\ ret[i].amount.frac # <<>>
    /\ \E k \in 1..Len(findall("dollar", text)) :
          LET m == findall("dollar", text)[k]
          IN  str_count(m, ".") = 1 /\ str_count(m, ",") = 0

---------------------------------------------------------------------------
(* extract_time applied to a text.                                         *)

MaxTimeTokens == 3

TimeTokens ==
    { <<"a", " ", "l", "a", "s", " ">>, <<"2", "0", ":", "3", "3">>,
      <<"8">>, <<":">>, <<"0", "5">>, <<" ">>, <<"P", "M">>, <<"a", "m">>,
      <<"x">> }

InitTime ==
    /\ pc = "start"
    /\ text \in Texts(TimeTokens, MaxTimeTokens)
    /\ banks = <<>>
    /\ ret = None
    /\ transaction = <<>>
    /\ validation = <<>>
    /\ annotation_file = <<>>
    /\ fs = <<>>
    /\ outputs = <<>>

ExtractTime ==
    /\ pc = "start"
    /\ ret' = extract_time(text)
    /\ pc' = "done"
    /\ UNCHANGED <<text, banks>>
    /\ UNCHANGED extractor_vars

NextTime == ExtractTime

SpecTime == InitTime /\ [][NextTime]_vars

\* C4: when the first time match has no meridiem, the result is the hour
\* and the minute joined by a colon and nothing else.
C4_NoMeridiemNothingAppended ==
    pc = "done" /\ first_time_match(text).ok
                /\ first_time_match(text).meridiem = None
        => ret = Some(first_time_match(text).hour \o <<":">>
                        \o first_time_match(text).minute)

---------------------------------------------------------------------------
(* extract_card_info applied to a text.                                    *)

MaxCardTokens == 3

CardTokens ==
    { <<"T", ".", "C", "r", "e", "d">>, <<"t", ".", "c", "r", "e", "d">>,
      <<"T", ".", "D", "e", "b">>, <<"T", ".", "D", "E", "B">>,
      <<"T", "a", "r", "j", "e", "t", "a">>, <<"T", "A", "R", "J", "E", "T", "A">>,
      <<"C", "r", "e", "d", "i", "t">>, <<"D", "e", "b", "i", "t">>,
      <<"c", "a", "r", "d">>,
      <<" ">>, <<"*">>, <<"9", "0", "9", "5">>, <<"1", "2">> }

InitCard ==
    /\ pc = "start"
    /\ text \in Texts(CardTokens, MaxCardTokens)
    /\ banks = <<>>
    /\ ret = None
    /\ transaction = <<>>
    /\ validation = <<>>
    /\ annotation_file = <<>>
    /\ fs = <<>>
    /\ outputs = <<>>

ExtractCardInfo ==
    /\ pc = "start"
    /\ ret' = extract_card_info(text)
    /\ pc' = "done"
    /\ UNCHANGED <<text, banks>>
    /\ UNCHANGED extractor_vars

NextCard == ExtractCardInfo

SpecCard == InitCard /\ [][NextCard]_vars

\* The canonical kinds, as the program writes them and as the record's
\* enumeration names them.
CanonicalKinds ==
    { <<"C", "r", "e", "d", "i", "t", " ", "C", "a", "r", "d">>,
      <<"D", "e", "b", "i", "t", " ", "C", "a", "r", "d">>,
      <<"C", "r", "e", "d", "i", "t">>, <<"D", "e", "b", "i", "t">>,
      <<"U", "n", "k", "n", "o", "w", "n">> }

\* C5: a returned card has a canonical kind, in whatever letter case the
\* text writes its label.
C5_KindIsCanonical ==
    pc = "done" /\ ret # None => ret[1].type \in CanonicalKinds

---------------------------------------------------------------------------
(* extract_account_numbers applied to a text.                              *)

MaxAccountTokens == 3

AccountTokens ==
    { <<"*", "*", "*", "*">>, <<"*">>,
      <<"A", "C", "C", "O", "U", "N", "T">>, <<"a", "c", "c", "t">>,
      <<" ">>, <<"N", "o">>, <<"#">>, <<":">>,
      <<"1", "2", "3", "4">>, <<"5", "6">> }

InitAccounts ==
    /\ pc = "start"
    /\ text \in Texts(AccountTokens, MaxAccountTokens)
    /\ banks = <<>>
    /\ ret = <<>>
    /\ transaction = <<>>
    /\ validation = <<>>
    /\ annotation_file = <<>>
    /\ fs = <<>>
    /\ outputs = <<>>

ExtractAccountNumbers ==
    /\ pc = "start"
    /\ ret' = extract_account_numbers(text)
    /\ pc' = "done"
    /\ UNCHANGED <<text, banks>>
    /\ UNCHANGED extractor_vars

NextAccounts == ExtractAccountNumbers

SpecAccounts == InitAccounts /\ [][NextAccounts]_vars

RECURSIVE DigitRunEnd(_, _)
\* The position of the last digit of the run of digits that holds s[p].
DigitRunEnd(s, p) ==
    IF p + 1 <= Len(s) /\ IsDigit(s[p + 1]) THEN DigitRunEnd(s, p + 1) ELSE p

account_matches(s) == finditer("masked", s) \o finditer("labeled", s)

\* C8: every entry is four digits, the last four of the run of digits it
\* was taken from.
C8_LastFourDigits ==
    pc = "done" =>
        /\ Len(ret) = Len(account_matches(text))
        /\ \A i \in 1..Len(ret) :
              LET last == DigitRunEnd(text, account_matches(text)[i].from)
              IN  /\ Len(ret[i]) = 4
                  /\ \A k \in 1..4 : IsDigit(ret[i][k])
                  /\ ret[i] = SubSeq(text, last - 3, last)

---------------------------------------------------------------------------
(* validate_transaction applied to a record.                               *)

MaxAmounts == 6

OneAmount == Candidate(Number(<<"1">>, <<>>), "USD", <<"$", "1", ".", "0", "0">>)

TransactionTypes ==
    {"PURCHASE", "WIRE_TRANSFER", "WITHDRAWAL", "DEPOSIT", "PAYMENT",
     "ACH_TRANSFER", "UNKNOWN"}

Records ==
    { [raw_text          |-> <<>>,
       amounts           |-> [i \in 1..n |-> OneAmount],
       dates             |-> dates,
       time              |-> None,
       merchant          |-> None,
       card_info         |-> None,
       reference_numbers |-> references,
       account_numbers   |-> <<>>,
       transaction_type  |-> type,
       banks             |-> <<>>,
       document_labels   |-> <<>>] :
        n \in 0..MaxAmounts,
        dates \in { <<>>, << <<"2", "0", "2", "4", "-", "0", "1", "-", "0", "5">> >> },
        references \in { <<>>, << <<"A", "B", "1", "2", "3", "4", "5", "6">> >> },
        type \in TransactionTypes }

InitValidate ==
    /\ pc = "start"
    /\ transaction \in Records
    /\ validation = <<>>
    /\ text = <<>>
    /\ banks = <<>>
    /\ ret = <<>>
    /\ annotation_file = <<>>
    /\ fs = <<>>
    /\ outputs = <<>>

Validate ==
    /\ pc = "start"
    /\ validation' = validate_transaction(transaction)
    /\ pc' = "done"
    /\ UNCHANGED <<text, banks, ret, transaction, annotation_file, fs, outputs>>

NextValidate == Validate

SpecValidate == InitValidate /\ [][NextValidate]_vars

InSeq(x, xs) == \E i \in 1..Len(xs) : xs[i] = x

\* C6: is_valid is false exactly when there are errors, which is exactly
\* when there are no amounts, and the errors are then the one message;
\* warnings, the one for more than 5 amounts among them, leave is_valid alone.
C6_ValidIffAmounts ==
    pc = "done" =>
        /\ validation.is_valid = (validation.errors = <<>>)
        /\ (validation.errors = <<>>) = (transaction.amounts # <<>>)
        /\ transaction.amounts = <<>>
              => validation.errors = <<"No monetary amounts detected">>
        /\ Len(transaction.amounts) > 5
              => InSeq("Multiple amounts detected ("
                          \o ToString(Len(transaction.amounts)) \o ")",
                       validation.warnings)

\* A record of six amounts and nothing else: valid, with four warnings.
C6_Witness ==
    /\ pc = "done"
    /\ Len(transaction.amounts) = 6
    /\ validation.is_valid
    /\ Len(validation.warnings) = 4

---------------------------------------------------------------------------
(* main run on an annotation file, MaxRuns times at most.                  *)

\* str.swapcase()
swapcase(s) ==
    [i \in 1..Len(s) |-> IF s[i] \in UpperSet THEN char_lower(s[i])
                                               ELSE char_upper(s[i])]

CaseVariants(name) == {name, str_lower(name), str_upper(name), swapcase(name)}

BankMentions ==
    { <<>> }
    \cup UNION {CaseVariants(common_banks[i]) : i \in 1..11}
    \cup {common_banks[i] : i \in 12..Len(common_banks)}

AmountPhrases ==
    { <<"$", " ", "2", "0", "0", ".", "0", "0", "0">>,
      <<"T", "o", "t", "a", "l", " ", "1", ".", "0", "0", "0", ",", "5", "0">>,
      <<"C", "O", "P", " ", "5", "1", ".", "5", "5", "8", ",", "0", "0">> }

MainTexts == {m \o <<" ">> \o a : m \in BankMentions, a \in AmountPhrases}

LogoLists ==
    { <<>>,
      << [description |-> str_upper(Bancolombia)] >>,
      << [score |-> 1], [score |-> 2] >>,
      << [description |-> Bancolombia \o <<" ", "S", ".", "A", ".">>] >> }

SixLabels == [i \in 1..6 |-> [description |-> <<"L", ToString(i)>>]]

AnnotationFiles ==
    UNION { { [textAnnotations  |-> << [description |-> t] >>,
               logoAnnotations  |-> logos,
               labelAnnotations |-> SixLabels],
              [responses |-> << [textAnnotations |-> << [description |-> t] >>,
                                 logoAnnotations |-> logos] >>] } :
            t \in MainTexts, logos \in LogoLists }

InitMain ==
    /\ pc = "start"
    /\ annotation_file = <<"a", ".", "j", "s", "o", "n">>
    /\ \E data \in AnnotationFiles : fs = [f \in {annotation_file} |-> data]
    /\ outputs = <<>>
    /\ transaction = <<>>
    /\ validation = <<>>
    /\ text = <<>>
    /\ banks = <<>>
    /\ ret = <<>>

NextMain == Main

SpecMain == InitMain /\ [][NextMain]_vars

\* C7: two runs on the same input file write the same JSON.
C7_SameOutputTwice ==
    Len(outputs) >= 2 => outputs[1] = outputs[2]

\* The annotations main read: the input file is a.json, which no run writes.
InputAnnotations == annotations_of(fs[annotation_file])

\* Some detected name, lower-cased, is in COLOMBIAN_BANKS: the description
\* of a logo, or a name of the registry that the text holds in some case.
ColombianDetected ==
    \/ /\ Has(InputAnnotations, "logoAnnotations")
       /\ \E i \in 1..Len(InputAnnotations.logoAnnotations) :
             str_lower(description(InputAnnotations.logoAnnotations[i]))
                \in COLOMBIAN_BANKS
    \/ \E i \in 1..Len(common_banks) :
          /\ str_lower(common_banks[i]) \in COLOMBIAN_BANKS
          /\ Contains(str_lower(extract_text_from_annotations(InputAnnotations)),
                      str_lower(common_banks[i]))

\* The first 11 names of the registry are the Colombian ones.
ColombianNameInText ==
    \E i \in 1..11 :
        \E v \in CaseVariants(common_banks[i]) :
            Contains(extract_text_from_annotations(InputAnnotations), v)

\* C9: every $ candidate is COP when a Colombian bank is detected and USD
\* when none is, every fallback candidate is COP when one is detected and
\* UNKNOWN when none is; and each Colombian name of the registry, in the
\* text in any letter case, counts as detected.
C9_BankContextDecidesCurrency ==
    pc = "done" =>
        /\ \A i \in 1..Len(transaction.amounts) :
              LET c == transaction.amounts[i]
              IN  /\ FromRule(c) = 3
                        => c.currency = IF ColombianDetected THEN "COP" ELSE "USD"
                  /\ FromRule(c) = 4
                        => c.currency = IF ColombianDetected THEN "COP" ELSE "UNKNOWN"
        /\ ColombianNameInText => ColombianDetected

\* A Colombian name written in another case than the registry's, no logo of
\* a Colombian bank, and a $ amount: the candidate is COP.
C9_Witness ==
    /\ pc = "done"
    /\ ColombianNameInText
    /\ ~ \E i \in 1..11 :
            Contains(extract_text_from_annotations(InputAnnotations), common_banks[i])
    /\ \A i \in 1..Len(InputAnnotations.logoAnnotations) :
          str_lower(description(InputAnnotations.logoAnnotations[i]))
             \notin COLOMBIAN_BANKS
    /\ \E i \in 1..Len(transaction.amounts) :
          /\ FromRule(transaction.amounts[i]) = 3
          /\ transaction.amounts[i].currency = "COP"

---------------------------------------------------------------------------
(* main run on a file of any name.                                         *)

MaxPathTokens == 3

PathTokens ==
    { <<"a">>, <<".", "j", "s", "o", "n">>, <<".", "t", "x", "t">>,
      <<"j", "s", "o", "n">>, <<".">>, <<"_", "p", "a", "r", "s", "e", "d">> }

Paths == Texts(PathTokens, MaxPathTokens) \ { <<>> }

SmallAnnotationFiles ==
    { [textAnnotations |-> << [description |-> <<"C", "O", "P", " ", "5", "1", ".", "5", "5", "8", ",", "0", "0">>] >>],
      [responses |-> << [textAnnotations |-> << [description |-> <<"C", "h", "a", "s", "e", " ", "$", "1">>] >>,
                         logoAnnotations |-> << [description |-> Bancolombia] >>] >>] }

InitWrite ==
    /\ pc = "start"
    /\ annotation_file \in Paths
    /\ \E data \in SmallAnnotationFiles : fs = [f \in {annotation_file} |-> data]
    /\ outputs = <<>>
    /\ transaction = <<>>
    /\ validation = <<>>
    /\ text = <<>>
    /\ banks = <<>>
    /\ ret = <<>>

NextWrite == Main

SpecWrite == InitWrite /\ [][NextWrite]_vars

\* C10: a run writes a file other than the annotation file and leaves the
\* annotation file as it was.
C10_InputFileUntouched ==
    [][/\ outputs'[Len(outputs')].file # annotation_file
       /\ fs'[annotation_file] = fs[annotation_file]]_vars

=============================================================================
